---- MODULE Spec2Model ----
(***************************************************************************)
(* A model of esbuild_py: the backend selection performed by the package   *)
(* module (src/src/esbuild_py/__init__.py), the public transform/build     *)
(* facade, the native ctypes adapter (_native_backend.py) and the          *)
(* sandboxed WASM adapter (_wasm_backend.py).                               *)
(*                                                                         *)
(* Python strings are sequences of characters, Python values are tagged    *)
(* records, a dict is the sequence of its items in insertion order, and    *)
(* json.dumps / json.loads are modelled as the conversions they are.       *)
(***************************************************************************)
EXTENDS Integers, Sequences, FiniteSets, TLC

(***************************************************************************)
(* Bounds of the model.                                                    *)
(***************************************************************************)
\* longest source text passed to transform in the codec specification
MaxCodeLen == 2
\* most diagnostics in one response of the native library
MaxErrors == 2
\* calls made in one behaviour
MaxCalls == 2
\* executions of the package module (import and reloads) in one behaviour
MaxInits == 3
\* names the temporary-file directory can hand out
NumTmpNames == 4
\* bytes of a request that reach the input file when writing it fails
MaxWritten == 5
\* installed-package directories returned by site.getsitepackages()
NumSiteDirs == 2

(***************************************************************************)
(* Python values.                                                          *)
(***************************************************************************)
None == [none |-> TRUE]
PyStr(s) == [str |-> s]
PyBool(b) == [bool |-> b]
PyList(xs) == [list |-> xs]
PyDict(items) == [dict |-> items]

IsStr(x) == DOMAIN x = {"str"}
IsBool(x) == DOMAIN x = {"bool"}
IsList(x) == DOMAIN x = {"list"}
IsDict(x) == DOMAIN x = {"dict"}

\* bool(x) of a Python value
Truthy(x) ==
    IF x = None THEN FALSE
    ELSE IF IsBool(x) THEN x.bool
    ELSE IF IsStr(x) THEN Len(x.str) > 0
    ELSE IF IsList(x) THEN Len(x.list) > 0
    ELSE Len(x.dict) > 0

\* a dict is the sequence of its <<key, value>> items, keys distinct
DictKeys(items) == {items[i][1] : i \in 1..Len(items)}
DictHas(items, k) == k \in DictKeys(items)
DictIndex(items, k) == CHOOSE i \in 1..Len(items) : items[i][1] = k
\* d.get(k, default)
DictGet(items, k, default) ==
    IF DictHas(items, k) THEN items[DictIndex(items, k)][2] ELSE default
\* d[k] = v
DictSet(items, k, v) ==
    IF DictHas(items, k)
    THEN [items EXCEPT ![DictIndex(items, k)] = <<k, v>>]
    ELSE Append(items, <<k, v>>)
\* the mapping a dict denotes, as a function from its keys
AsMapping(items) == [k \in DictKeys(items) |-> DictGet(items, k, None)]

(***************************************************************************)
(* json.dumps and json.loads (ensure_ascii=True, the default).             *)
(***************************************************************************)
\* characters of the modelled texts; "U+00E9" stands for one non-ASCII character
Quote == "\""
Backslash == "\\"
NonAscii == "U+00E9"

\* py_encode_basestring_ascii on one character
EscapeChar(c) ==
    IF c = Quote THEN <<Backslash, Quote>>
    ELSE IF c = Backslash THEN <<Backslash, Backslash>>
    ELSE IF c = NonAscii THEN <<Backslash, "u", "0", "0", "e", "9">>
    ELSE <<c>>

RECURSIVE JsonEscape(_)
JsonEscape(s) ==
    IF s = <<>> THEN <<>> ELSE EscapeChar(Head(s)) \o JsonEscape(Tail(s))

\* the scanner of json.loads on the inside of a string literal
RECURSIVE JsonUnescape(_)
JsonUnescape(e) ==
    IF e = <<>> THEN <<>>
    ELSE IF Head(e) # Backslash THEN <<Head(e)>> \o JsonUnescape(Tail(e))
    ELSE IF e[2] = "u" THEN
        (IF SubSeq(e, 3, 6) = <<"0", "0", "e", "9">>
         THEN <<NonAscii>> ELSE <<"?">>) \o JsonUnescape(SubSeq(e, 7, Len(e)))
    ELSE <<e[2]>> \o JsonUnescape(SubSeq(e, 3, Len(e)))

\* the JSON text json.dumps writes for a value, as its syntax tree with the
\* string literals escaped
RECURSIVE JsonTree(_)
JsonTree(x) ==
    IF IsStr(x) THEN [string |-> JsonEscape(x.str)]
    ELSE IF IsBool(x) THEN [literal |-> IF x.bool THEN "true" ELSE "false"]
    ELSE IF IsList(x) THEN
        [array |-> [i \in 1..Len(x.list) |-> JsonTree(x.list[i])]]
    ELSE [object |-> [i \in 1..Len(x.dict) |->
                        <<x.dict[i][1], JsonTree(x.dict[i][2])>>]]

\* the value json.loads builds from a well-formed text: a repeated member
\* keeps its last value
RECURSIVE TreeLoads(_), LoadMembers(_)
LoadMembers(ms) ==
    IF ms = <<>> THEN <<>>
    ELSE LET n == Len(ms)
         IN DictSet(LoadMembers(SubSeq(ms, 1, n - 1)), ms[n][1], TreeLoads(ms[n][2]))
TreeLoads(j) ==
    IF DOMAIN j = {"string"} THEN PyStr(JsonUnescape(j.string))
    ELSE IF DOMAIN j = {"literal"} THEN PyBool(j.literal = "true")
    ELSE IF DOMAIN j = {"array"} THEN
        PyList([i \in 1..Len(j.array) |-> TreeLoads(j.array[i])])
    ELSE PyDict(LoadMembers(j.object))

(***************************************************************************)
(* Texts and byte strings.  A text is either well-formed JSON (its tree)   *)
(* or plain characters; bytes are either the UTF-8 encoding of a text or   *)
(* a byte string that is not valid UTF-8.                                  *)
(***************************************************************************)
JsonText(tree) == [json |-> tree]
PlainText(chars) == [plain |-> chars]
IsJsonText(text) == DOMAIN text = {"json"}

RECURSIVE RenderSeq(_, _), Render(_)
\* the characters of a JSON text
RenderSeq(parts, i) ==
    IF i > Len(parts) THEN <<>>
    ELSE (IF i > 1 THEN <<", ">> ELSE <<>>) \o parts[i] \o RenderSeq(parts, i + 1)
Render(tree) ==
    IF DOMAIN tree = {"string"} THEN <<Quote>> \o tree.string \o <<Quote>>
    ELSE IF DOMAIN tree = {"literal"} THEN <<tree.literal>>
    ELSE IF DOMAIN tree = {"array"} THEN
        <<"[">> \o RenderSeq([i \in 1..Len(tree.array) |-> Render(tree.array[i])], 1)
                \o <<"]">>
    ELSE <<"{">> \o RenderSeq([i \in 1..Len(tree.object) |->
                        <<Quote, tree.object[i][1], Quote, ": ">>
                            \o Render(tree.object[i][2])], 1) \o <<"}">>

\* the characters of a text (a Python str)
Chars(text) == IF IsJsonText(text) THEN Render(text.json) ELSE text.plain

\* json.dumps(value): a str
JsonDumps(value) == JsonText(JsonTree(value))
\* json.loads(text) succeeds on well-formed JSON only
JsonLoadsOk(text) == IsJsonText(text)
JsonLoads(text) == TreeLoads(text.json)

\* str.encode('utf-8') and bytes.decode('utf-8')
Utf8Encode(text) == [utf8 |-> text]
BadUtf8 == [invalid |-> TRUE]
Utf8DecodeOk(bytes) == DOMAIN bytes = {"utf8"}
Utf8Decode(bytes) == bytes.utf8
EmptyBytes == Utf8Encode(PlainText(<<>>))
\* len(bytes) = 0
BytesEmpty(bytes) == Utf8DecodeOk(bytes) /\ Chars(bytes.utf8) = <<>>

(***************************************************************************)
(* Exceptions and the outcome of a call.                                   *)
(***************************************************************************)
Exc(type, msg) == [type |-> type, msg |-> msg]
Returned(value) == [kind |-> "return", value |-> value, exc |-> Exc("", <<>>)]
Raised(exc) == [kind |-> "raise", value |-> None, exc |-> exc]
NoOutcome == [kind |-> "none", value |-> None, exc |-> Exc("", <<>>)]

\* the classes an exception class derives from (itself included)
Bases(type) ==
    IF type = "FileNotFoundError" THEN {"FileNotFoundError", "OSError", "Exception"}
    ELSE IF type = "ModuleNotFoundError"
        THEN {"ModuleNotFoundError", "ImportError", "Exception"}
    ELSE IF type \in {"UnicodeDecodeError", "JSONDecodeError"}
        THEN {type, "ValueError", "Exception"}
    ELSE {type, "Exception"}
\* except (classes): does the clause catch an exception of this class
Catches(classes, type) == Bases(type) \cap classes # {}

(***************************************************************************)
(* The inputs of the calls.                                                *)
(***************************************************************************)
Jsx == <<"j", "s", "x">>
Ts == <<"t", "s">>
CodeChars == {"a", Quote, Backslash, NonAscii}

RECURSIVE SeqsUpTo(_, _)
\* the sequences over S of length at most n
SeqsUpTo(S, n) ==
    IF n = 0 THEN {<<>>}
    ELSE LET shorter == SeqsUpTo(S, n - 1)
         IN shorter \cup {Append(q, e) : q \in shorter, e \in S}

\* **kwargs of transform: the options in the order the caller wrote them
KwargsSet ==
    LET loaders == {PyStr(Jsx), PyStr(Ts)}
        minify == <<"minify", PyBool(TRUE)>>
    IN {<<>>, <<minify>>}
       \cup {<< <<"loader", l>> >> : l \in loaders}
       \cup {<< <<"loader", l>>, minify >> : l \in loaders}
       \cup {<< minify, <<"loader", l>> >> : l \in loaders}

\* the requests of the calls of the main specification
CallCodes == {<<Quote, NonAscii>>}
CallKwargs == {<<>>, << <<"loader", PyStr(Ts)>>, <<"minify", PyBool(TRUE)>> >>}
\* **kwargs of build
BuildKwargs == {<< <<"bundle", PyBool(TRUE)>> >>}

(***************************************************************************)
(* NativeBackend (src/src/esbuild_py/_native_backend.py).                  *)
(***************************************************************************)
\* a variant that sets the loader whether or not the caller gave one
NativeOptionsOverwrite(kwargs) == DictSet(kwargs, "loader", PyStr(<<"j", "s", "x">>))

\* options = kwargs.copy(); if 'loader' not in options: options['loader'] = 'jsx'
NativeOptions(kwargs) ==
    IF ~DictHas(kwargs, "loader") THEN DictSet(kwargs, "loader", PyStr(Jsx))
    ELSE kwargs

\* request = {"code": code, "options": options}
NativeRequest(code, kwargs) ==
    PyDict(<< <<"code", PyStr(code)>>, <<"options", PyDict(NativeOptions(kwargs))>> >>)

\* request_json.encode('utf-8'), the argument of the foreign call
NativeRequestBytes(code, kwargs) == Utf8Encode(JsonDumps(NativeRequest(code, kwargs)))

\* what the compiler makes of a source text: a black box, tagged with its input
Compiled(code) == <<"/*js*/">> \o code

\* the diagnostics a response of the library may list
Diagnostics ==
    {PyDict(<< <<"text", PyStr(<<"E1">>)>> >>),
     PyDict(<< <<"text", PyStr(<<"E2">>)>>, <<"location", PyStr(<<"1:1">>)>> >>),
     PyDict(<< <<"location", PyStr(<<"1:1">>)>> >>)}

\* the JSON values the library may answer a request with
NativeResponses(code) ==
    LET codes == {<<>>, << <<"code", PyStr(Compiled(code))>> >>}
        errors == {<<>>} \cup {<< <<"errors", PyList(ds)>> >> :
                                 ds \in SeqsUpTo(Diagnostics, MaxErrors)}
    IN {PyDict(c \o e) : c \in codes, e \in errors} \cup {PyList(<<>>)}

\* the buffers the library may return for a request: JSON, text that is no
\* JSON, bytes that are no UTF-8
NativeBuffers(request_bytes) ==
    LET request == JsonLoads(Utf8Decode(request_bytes))
        code == DictGet(request.dict, "code", PyStr(<<>>)).str
    IN {Utf8Encode(JsonDumps(r)) : r \in NativeResponses(code)}
       \cup {Utf8Encode(PlainText(<<"panic">>)), BadUtf8}

\* [e.get('text', 'Unknown error') for e in response['errors']]
ErrorMessages(errors) ==
    [i \in 1..Len(errors) |-> DictGet(errors[i].dict, "text", PyStr(<<"Unknown error">>)).str]

RECURSIVE Join(_, _)
\* sep.join(strs)
Join(sep, strs) ==
    IF strs = <<>> THEN <<>>
    ELSE IF Len(strs) = 1 THEN strs[1]
    ELSE strs[1] \o sep \o Join(sep, Tail(strs))

MsgNullPointer == <<"esbuild transform function returned a NULL pointer.">>
MsgTransformFailed == <<"esbuild transformation failed: ">>

\* a variant that returns the code when there is one, before looking at errors
NativeRespondCodeFirst(response) ==
    IF ~IsDict(response)
    THEN Raised(Exc("AttributeError", <<"'list' object has no attribute 'get'">>))
    ELSE IF DictHas(response.dict, "code")
    THEN Returned(DictGet(response.dict, "code", PyStr(<<>>)))
    ELSE LET errors == DictGet(response.dict, "errors", None)
         IN IF Truthy(errors)
            THEN Raised(Exc("RuntimeError",
                     MsgTransformFailed \o Join(<<", ">>, ErrorMessages(errors.list))))
            ELSE Returned(PyStr(<<>>))

\* lines 110-116: the response is processed
NativeRespond(response) ==
    IF ~IsDict(response)
    THEN Raised(Exc("AttributeError", <<"'list' object has no attribute 'get'">>))
    ELSE LET errors == DictGet(response.dict, "errors", None)
         IN IF Truthy(errors) /\ Len(errors.list) > 0
            THEN Raised(Exc("RuntimeError",
                     MsgTransformFailed \o Join(<<", ">>, ErrorMessages(errors.list))))
            ELSE Returned(DictGet(response.dict, "code", PyStr(<<>>)))

\* lines 103-116: the bytes read from the buffer are decoded and processed
NativeDecode(c_string) ==
    IF ~Utf8DecodeOk(c_string)
    THEN Raised(Exc("UnicodeDecodeError", <<"invalid start byte">>))
    ELSE IF ~JsonLoadsOk(Utf8Decode(c_string))
    THEN Raised(Exc("JSONDecodeError", <<"Expecting value">>))
    ELSE NativeRespond(JsonLoads(Utf8Decode(c_string)))

(***************************************************************************)
(* WasmBackend (src/src/esbuild_py/_wasm_backend.py).                      *)
(***************************************************************************)
WasmOptions(kwargs) ==
    IF ~DictHas(kwargs, "loader") THEN DictSet(kwargs, "loader", PyStr(Jsx))
    ELSE kwargs

\* request_payload = {"command": "transform", "input": code, "options": options}
WasmRequest(code, kwargs) ==
    PyDict(<< <<"command", PyStr(<<"transform">>)>>, <<"input", PyStr(code)>>,
              <<"options", PyDict(WasmOptions(kwargs))>> >>)

\* request_json_bytes
WasmRequestBytes(code, kwargs) == Utf8Encode(JsonDumps(WasmRequest(code, kwargs)))

\* what the sandboxed program may have written to its output file when it
\* stops, having read stdin_bytes
SandboxOutputs(stdin_bytes) ==
    LET request == JsonLoads(Utf8Decode(stdin_bytes))
        code == DictGet(request.dict, "input", PyStr(<<>>)).str
    IN {Utf8Encode(JsonDumps(r)) : r \in
            {PyDict(<< <<"code", PyStr(Compiled(code))>> >>),
             PyDict(<< <<"error", PyStr(<<"E1">>)>> >>),
             PyDict(<< <<"error", PyStr(<<>>)>>, <<"code", PyStr(Compiled(code))>> >>),
             PyDict(<<>>), PyList(<<>>)}}
       \cup {Utf8Encode(PlainText(<<"panic">>)), BadUtf8, EmptyBytes}

\* how start_func(store) may end: it returns, or it raises WasmtimeError for
\* an exit with status 0 or 1 or for another failure of the execution, or it
\* raises an exception of a class that does not derive from WasmtimeError
MsgExit0 == <<"Exited with i32 exit status ", "0">>
MsgExit1 == <<"Exited with i32 exit status ", "1">>
NoExc == Exc("", <<>>)
Terminations ==
    {NoExc,
     Exc("WasmtimeError", MsgExit0),
     Exc("WasmtimeError", MsgExit1),
     Exc("WasmtimeError", <<"wasm trap: unreachable">>),
     Exc("Trap", <<"wasm trap: unreachable">>)}

\* needle in haystack, for strings
Contains(haystack, needle) ==
    \E i \in 0..(Len(haystack) - Len(needle)) :
        SubSeq(haystack, i + 1, i + Len(needle)) = needle

MsgWasmFailed == <<"esbuild WASM execution failed:", Backslash, "n">>
MsgNoData == <<"esbuild WASM process returned no data.">>

\* lines 87-98: the entry point has ended with `ended`, the output file holds
\* output_bytes; the exception that leaves the inner try, if any
WasmAfterStart(ended, output_bytes) ==
    IF ended = NoExc THEN NoOutcome
    ELSE IF ~Catches({"WasmtimeError"}, ended.type) THEN Raised(ended)
    ELSE IF ~Contains(ended.msg, MsgExit0) THEN
        IF ~Utf8DecodeOk(output_bytes)
        THEN Raised(Exc("UnicodeDecodeError", <<"invalid start byte">>))
        ELSE Raised(Exc("RuntimeError", MsgWasmFailed \o Chars(Utf8Decode(output_bytes))))
    ELSE NoOutcome

\* a variant that does not look at the response's error field
WasmRespondIgnoresError(output_bytes) ==
    IF BytesEmpty(output_bytes) THEN Raised(Exc("RuntimeError", MsgNoData))
    ELSE IF ~Utf8DecodeOk(output_bytes)
    THEN Raised(Exc("UnicodeDecodeError", <<"invalid start byte">>))
    ELSE IF ~JsonLoadsOk(Utf8Decode(output_bytes))
    THEN Raised(Exc("JSONDecodeError", <<"Expecting value">>))
    ELSE IF ~IsDict(JsonLoads(Utf8Decode(output_bytes)))
    THEN Raised(Exc("AttributeError", <<"'list' object has no attribute 'get'">>))
    ELSE Returned(DictGet(JsonLoads(Utf8Decode(output_bytes)).dict, "code", PyStr(<<>>)))

\* lines 100-113: the output file is read and processed
WasmRespond(output_bytes) ==
    IF BytesEmpty(output_bytes) THEN Raised(Exc("RuntimeError", MsgNoData))
    ELSE IF ~Utf8DecodeOk(output_bytes)
    THEN Raised(Exc("UnicodeDecodeError", <<"invalid start byte">>))
    ELSE IF ~JsonLoadsOk(Utf8Decode(output_bytes))
    THEN Raised(Exc("JSONDecodeError", <<"Expecting value">>))
    ELSE IF ~IsDict(JsonLoads(Utf8Decode(output_bytes)))
    THEN Raised(Exc("AttributeError", <<"'list' object has no attribute 'get'">>))
    ELSE LET response == JsonLoads(Utf8Decode(output_bytes))
             error_message == DictGet(response.dict, "error", None)
         IN IF Truthy(error_message)
            THEN Raised(Exc("RuntimeError", MsgTransformFailed \o error_message.str))
            ELSE Returned(DictGet(response.dict, "code", PyStr(<<>>)))

(***************************************************************************)
(* Construction of the adapters.                                           *)
(***************************************************************************)
\* the places _get_lib_path looks at: 0 is the package's own directory, 1.. are
\* the directories of site.getsitepackages(), in order
Candidates == 0..NumSiteDirs
NoPath == -1

RECURSIVE ScanSitePackages(_, _)
\* lines 76-80: for d in site.getsitepackages(), from the i-th on
ScanSitePackages(i, libFiles) ==
    IF i > NumSiteDirs THEN NoPath
    ELSE IF i \in libFiles THEN i
    ELSE ScanSitePackages(i + 1, libFiles)

\* a variant that scans the installed-package directories first
GetLibPathSiteFirst(libFiles) ==
    IF ScanSitePackages(1, libFiles) # NoPath THEN ScanSitePackages(1, libFiles)
    ELSE IF 0 \in libFiles THEN 0 ELSE NoPath

\* NativeBackend._get_lib_path, libFiles being the places where the file exists
GetLibPath(libFiles) ==
    IF 0 \in libFiles THEN 0 ELSE ScanSitePackages(1, libFiles)

\* what loading the library found may do
LoadEnvs == {"ok", "oserror", "no_transform", "no_free"}

\* NativeBackend.__init__: "ok", or the class of the exception it raises
NativeInit(libFiles, load) ==
    IF GetLibPath(libFiles) = NoPath THEN "FileNotFoundError"
    ELSE IF load = "oserror" THEN "OSError"
    ELSE IF load = "no_transform" THEN "AttributeError"
    ELSE IF load = "no_free" THEN "AttributeError"
    ELSE "ok"

\* what reading the module's bytes through importlib.resources may do
ResourceEnvs == {"bytes", "FileNotFoundError", "AttributeError", "ModuleNotFoundError"}
\* what pkgutil.get_data may do
PkgutilEnvs == {"bytes", "None", "FileNotFoundError"}

\* WasmBackend._load_wasm_module: "ok", or the class of the exception it raises
LoadWasmModule(res, pkg, compiles) ==
    LET read == IF res = "bytes" THEN "bytes"
                ELSE IF pkg = "None" THEN "FileNotFoundError"
                ELSE pkg
    IN IF read # "bytes" THEN read
       ELSE IF ~compiles THEN "WasmtimeError"
       ELSE "ok"

\* from ._wasm_backend import WasmBackend; WasmBackend()
WasmInit(installed, res, pkg, compiles) ==
    IF ~installed THEN "ModuleNotFoundError" ELSE LoadWasmModule(res, pkg, compiles)

\* the methods of the adapter classes
Methods(kind) ==
    IF kind = "native" THEN {"__init__", "_get_lib_path", "transform"}
    ELSE IF kind = "wasm" THEN {"__init__", "_load_wasm_module", "transform"}
    ELSE {}

NoInstance == [kind |-> "none", id |-> 0, lib |-> NoPath]
NativeInstance(id, lib) == [kind |-> "native", id |-> id, lib |-> lib]
WasmInstance(id) == [kind |-> "wasm", id |-> id, lib |-> NoPath]

(***************************************************************************)
(* The state.                                                              *)
(***************************************************************************)
NumThreads == 2
\* a name of the temporary directory under which no file exists
NoFile == [absent |-> TRUE]
\* the content of a buffer the library has released
Released == [released |-> TRUE]
Threads == 1..NumThreads
TmpNames == 1..NumTmpNames

VARIABLES
    concurrent,        \* do calls and executions of the module interleave
    patched,           \* is NativeBackend replaced by a mock raising FileNotFoundError
    modpc,             \* the statement of __init__.py to execute next
    loaded,            \* the package has been imported: it can be called and reloaded
    ninits,            \* executions of __init__.py so far
    BACKEND,           \* esbuild_py.BACKEND
    backend_instance,  \* esbuild_py._backend_instance
    native_result,     \* what NativeBackend() did in this execution of __init__.py
    wasm_result,       \* what WasmBackend() did in this execution of __init__.py
    pc,                \* per thread: the statement of its call to execute next
    frame,             \* per thread: the locals of its call
    ncalls,            \* calls started so far
    heap,              \* the buffers the native library has allocated
    null_frees,        \* invocations of the library's free with a NULL pointer
    files,             \* the temporary files that exist, with their content
    native_available,  \* would NativeBackend() have succeeded, unpatched, when
                       \* this execution of __init__.py reached line 24
    resolved           \* what the NativeBackend() that has just run found

history == <<native_available, resolved>>
selector == <<patched, modpc, loaded, ninits, BACKEND, backend_instance,
              native_result, wasm_result, history>>
calls == <<pc, frame, ncalls>>
resources == <<heap, null_frees, files>>
vars == <<concurrent, selector, calls, resources>>

\* no NativeBackend() has just run
NotResolved == [libFiles |-> {}, load |-> "-", path |-> NoPath, ran |-> FALSE]
\* NativeBackend() has just run where the library file exists at `libFiles`
\* and loading it does `load`
Resolved(libFiles, load) ==
    [libFiles |-> libFiles, load |-> load, path |-> GetLibPath(libFiles), ran |-> TRUE]

\* start_func has not been called
NotRun == Exc("-", <<>>)

EmptyFrame ==
    [op |-> "", code |-> <<>>, kwargs |-> <<>>, inst |-> NoInstance,
     request |-> EmptyBytes, result_ptr |-> 0, c_string |-> EmptyBytes,
     stdin |-> 0, stdout |-> 0, ended |-> NotRun, output_bytes |-> EmptyBytes,
     pending |-> NoOutcome, outcome |-> NoOutcome]

InitState ==
    /\ patched = FALSE
    /\ modpc = "unimported"
    /\ loaded = FALSE
    /\ ninits = 0
    /\ BACKEND = "none"
    /\ backend_instance = NoInstance
    /\ native_result = "unset"
    /\ wasm_result = "unset"
    /\ pc = [t \in Threads |-> "idle"]
    /\ frame = [t \in Threads |-> EmptyFrame]
    /\ ncalls = 0
    /\ heap = <<>>
    /\ null_frees = 0
    /\ files = [n \in TmpNames |-> NoFile]
    /\ native_available = FALSE
    /\ resolved = NotResolved

\* selection runs before any call and no two calls overlap
Init == concurrent = FALSE /\ InitState

NoCallInFlight == \A t \in Threads : pc[t] = "idle"
ModuleAtRest == modpc \in {"ready", "raised"}

(***************************************************************************)
(* src/src/esbuild_py/__init__.py: the module's statements.                *)
(***************************************************************************)
MayStep == concurrent \/ NoCallInFlight

\* import esbuild_py, the package not being loaded
Import ==
    /\ ~loaded /\ modpc \in {"unimported", "raised"}
    /\ ninits < MaxInits
    /\ modpc' = "L13" /\ ninits' = ninits + 1
    /\ native_result' = "unset" /\ wasm_result' = "unset"
    /\ resolved' = NotResolved
    /\ UNCHANGED <<concurrent, patched, loaded, BACKEND, backend_instance,
                   native_available, calls, resources>>

\* importlib.reload(esbuild_py): the module's code runs again in its namespace
Reload ==
    /\ loaded /\ ModuleAtRest /\ MayStep
    /\ ninits < MaxInits
    /\ modpc' = "L13" /\ ninits' = ninits + 1
    /\ native_result' = "unset" /\ wasm_result' = "unset"
    /\ resolved' = NotResolved
    /\ UNCHANGED <<concurrent, patched, loaded, BACKEND, backend_instance,
                   native_available, calls, resources>>

\* mock.patch('esbuild_py._native_backend.NativeBackend', side_effect=FileNotFoundError)
Patch ==
    /\ loaded /\ ModuleAtRest /\ ~patched
    /\ patched' = TRUE
    /\ UNCHANGED <<concurrent, modpc, loaded, ninits, BACKEND, backend_instance,
                   native_result, wasm_result, history, calls, resources>>

\* the patch exits: the attribute of _native_backend is restored
Unpatch ==
    /\ patched /\ ModuleAtRest
    /\ patched' = FALSE
    /\ UNCHANGED <<concurrent, modpc, loaded, ninits, BACKEND, backend_instance,
                   native_result, wasm_result, history, calls, resources>>

\* a variant that leaves BACKEND as the previous execution set it
ModL13KeepsBackend ==
    /\ modpc = "L13" /\ MayStep
    /\ modpc' = "L14"
    /\ UNCHANGED <<concurrent, patched, loaded, ninits, BACKEND, backend_instance,
                   native_result, wasm_result, history, calls, resources>>

\* line 13: BACKEND = "none"
ModL13 ==
    /\ modpc = "L13" /\ MayStep
    /\ BACKEND' = "none"
    /\ modpc' = "L14"
    /\ UNCHANGED <<concurrent, patched, loaded, ninits, backend_instance,
                   native_result, wasm_result, history, calls, resources>>

\* a variant that keeps the handle of the previous execution
ModL14KeepsHandle ==
    /\ modpc = "L14" /\ MayStep
    /\ modpc' = "L23"
    /\ UNCHANGED <<concurrent, patched, loaded, ninits, BACKEND, backend_instance,
                   native_result, wasm_result, history, calls, resources>>

\* line 14: _backend_instance = None
ModL14 ==
    /\ modpc = "L14" /\ MayStep
    /\ backend_instance' = NoInstance
    /\ modpc' = "L23"
    /\ UNCHANGED <<concurrent, patched, loaded, ninits, BACKEND,
                   native_result, wasm_result, history, calls, resources>>

\* line 27: except (ImportError, FileNotFoundError)
NativeExcept == {"ImportError", "FileNotFoundError"}
\* line 35: except (ImportError, FileNotFoundError) as e
WasmExcept == {"ImportError", "FileNotFoundError"}

\* lines 22-24: from ._native_backend import NativeBackend;
\* _backend_instance = NativeBackend()
ModL23 ==
    /\ modpc = "L23" /\ MayStep
    /\ \E libFiles \in SUBSET Candidates, load \in LoadEnvs, importable \in BOOLEAN :
        LET result == IF patched THEN "FileNotFoundError"
                      ELSE IF ~importable THEN "ImportError"
                      ELSE NativeInit(libFiles, load)
        IN /\ native_result' = result
           /\ native_available' = (importable /\ NativeInit(libFiles, load) = "ok")
           /\ resolved' = IF patched \/ ~importable THEN NotResolved
                          ELSE Resolved(libFiles, load)
           /\ IF result = "ok"
              THEN /\ backend_instance' = NativeInstance(ninits, GetLibPath(libFiles))
                   /\ modpc' = "L25"
              ELSE /\ backend_instance' = backend_instance
                   /\ modpc' = IF Catches(NativeExcept, result) THEN "L31" ELSE "raised"
    /\ UNCHANGED <<concurrent, patched, loaded, ninits, BACKEND, wasm_result,
                   calls, resources>>

\* line 25: BACKEND = "native"
ModL25 ==
    /\ modpc = "L25" /\ MayStep
    /\ BACKEND' = "native"
    /\ modpc' = "ready" /\ loaded' = TRUE
    /\ resolved' = NotResolved
    /\ UNCHANGED <<concurrent, patched, ninits, backend_instance,
                   native_result, wasm_result, native_available,
                   calls, resources>>

\* lines 29-32: log.warning(...); from ._wasm_backend import WasmBackend;
\* _backend_instance = WasmBackend()
ModL31 ==
    /\ modpc = "L31" /\ MayStep
    /\ \E installed \in BOOLEAN, res \in ResourceEnvs, pkg \in PkgutilEnvs,
          compiles \in BOOLEAN :
        LET result == WasmInit(installed, res, pkg, compiles)
        IN /\ wasm_result' = result
           /\ IF result = "ok"
              THEN /\ backend_instance' = WasmInstance(ninits)
                   /\ modpc' = "L33"
              ELSE /\ backend_instance' = backend_instance
                   /\ modpc' = IF Catches(WasmExcept, result) THEN "L37" ELSE "raised"
    /\ resolved' = NotResolved
    /\ UNCHANGED <<concurrent, patched, loaded, ninits, BACKEND, native_result,
                   native_available, calls, resources>>

\* line 33: BACKEND = "wasm"
ModL33 ==
    /\ modpc = "L33" /\ MayStep
    /\ BACKEND' = "wasm"
    /\ modpc' = "ready" /\ loaded' = TRUE
    /\ UNCHANGED <<concurrent, patched, ninits, backend_instance,
                   native_result, wasm_result, history, calls, resources>>

\* lines 37-38: log.error(...); _backend_instance = None
ModL37 ==
    /\ modpc = "L37" /\ MayStep
    /\ backend_instance' = NoInstance
    /\ modpc' = "L39"
    /\ UNCHANGED <<concurrent, patched, loaded, ninits, BACKEND,
                   native_result, wasm_result, history, calls, resources>>

\* line 39: BACKEND = "none"
ModL39 ==
    /\ modpc = "L39" /\ MayStep
    /\ BACKEND' = "none"
    /\ modpc' = "ready" /\ loaded' = TRUE
    /\ UNCHANGED <<concurrent, patched, ninits, backend_instance,
                   native_result, wasm_result, history, calls, resources>>

(***************************************************************************)
(* src/src/esbuild_py/__init__.py: transform and build.                    *)
(***************************************************************************)
MsgTransformUnavailable ==
    <<"Neither the native nor the WASM esbuild backend could be initialized. ",
      "This is likely due to a failed installation or a missing dependency. \n",
      "Please try reinstalling the package. If the problem persists, please open an issue at: \n",
      "https://github.com/esbuild-kit/esbuild-py/issues">>
MsgBuildUnavailable ==
    <<"No esbuild backend is available. The native library may be missing ",
      "or the WASM fallback failed.">>

\* instance.<name> on the adapter, or on None
NoAttribute(instance, name) ==
    Exc("AttributeError",
        <<IF instance.kind = "native" THEN "'NativeBackend'"
          ELSE IF instance.kind = "wasm" THEN "'WasmBackend'"
          ELSE "'NoneType'", " object has no attribute ", "'", name, "'">>)

MayCall(t) ==
    /\ loaded /\ pc[t] = "idle" /\ ncalls < MaxCalls
    /\ concurrent \/ (t = 1 /\ ModuleAtRest /\ NoCallInFlight)

Goto(t, label, locals) ==
    /\ pc' = [pc EXCEPT ![t] = label]
    /\ frame' = [frame EXCEPT ![t] = locals]

\* the call ends: its outcome is handed to the caller
Done(t, locals, outcome) == Goto(t, "done", [locals EXCEPT !.outcome = outcome])

\* a variant without the test of line 59
TransformUnchecked(t) ==
    /\ MayCall(t)
    /\ \E code \in CallCodes, kwargs \in CallKwargs :
        Goto(t, "t68", [EmptyFrame EXCEPT !.op = "transform", !.code = code,
                                          !.kwargs = kwargs])
    /\ ncalls' = ncalls + 1
    /\ UNCHANGED <<concurrent, selector, resources>>

\* lines 42-65: transform(code, **kwargs) is entered
Transform(t) ==
    /\ MayCall(t)
    /\ \E code \in CallCodes, kwargs \in CallKwargs :
        LET locals == [EmptyFrame EXCEPT !.op = "transform", !.code = code,
                                         !.kwargs = kwargs]
        IN IF backend_instance = NoInstance
           THEN Done(t, locals, Raised(Exc("RuntimeError", MsgTransformUnavailable)))
           ELSE Goto(t, "t68", locals)
    /\ ncalls' = ncalls + 1
    /\ UNCHANGED <<concurrent, selector, resources>>

\* line 68: return _backend_instance.transform(code, **kwargs)
TransformDelegate(t) ==
    /\ pc[t] = "t68"
    /\ IF "transform" \notin Methods(backend_instance.kind)
       THEN Done(t, frame[t], Raised(NoAttribute(backend_instance, "transform")))
       ELSE Goto(t, IF backend_instance.kind = "native" THEN "n87" ELSE "w51",
                 [frame[t] EXCEPT !.inst = backend_instance])
    /\ UNCHANGED <<concurrent, selector, ncalls, resources>>

\* lines 71-94: build(**kwargs) is entered
Build(t) ==
    /\ MayCall(t)
    /\ \E kwargs \in BuildKwargs :
        LET locals == [EmptyFrame EXCEPT !.op = "build", !.kwargs = kwargs]
        IN IF backend_instance = NoInstance
           THEN Done(t, locals, Raised(Exc("RuntimeError", MsgBuildUnavailable)))
           ELSE Goto(t, "b95", locals)
    /\ ncalls' = ncalls + 1
    /\ UNCHANGED <<concurrent, selector, resources>>

\* line 95: return _backend_instance.build(**kwargs)
BuildDelegate(t) ==
    /\ pc[t] = "b95"
    /\ "build" \notin Methods(backend_instance.kind)
    /\ Done(t, [frame[t] EXCEPT !.inst = backend_instance],
            Raised(NoAttribute(backend_instance, "build")))
    /\ UNCHANGED <<concurrent, selector, ncalls, resources>>

\* the caller has the outcome of its call
Finish(t) ==
    /\ pc[t] = "done"
    /\ Goto(t, "idle", EmptyFrame)
    /\ UNCHANGED <<concurrent, selector, ncalls, resources>>

(***************************************************************************)
(* NativeBackend.transform (src/src/esbuild_py/_native_backend.py).        *)
(***************************************************************************)
\* the library's transform returns a new buffer holding `bytes`
Allocate(h, bytes) == Append(h, [data |-> bytes, frees |-> 0])
\* the library's free(ptr)
Free(h, ptr) == [h EXCEPT ![ptr] = [data |-> Released, frees |-> @.frees + 1]]
\* ctypes.cast(result_ptr, ctypes.c_char_p).value: the bytes at the address
ReadBuffer(h, ptr) == h[ptr].data

\* lines 85-94: the request is built and encoded; result_ptr = None
NativePrepare(t) ==
    /\ pc[t] = "n87"
    /\ Goto(t, "n97", [frame[t] EXCEPT
            !.request = NativeRequestBytes(frame[t].code, frame[t].kwargs),
            !.result_ptr = 0])
    /\ UNCHANGED <<concurrent, selector, ncalls, resources>>

\* line 97: result_ptr = self._transform(request_json.encode('utf-8'));
\* the library returns NULL or a buffer it has allocated
NativeCall(t) ==
    /\ pc[t] = "n97"
    /\ \/ /\ Goto(t, "n99", [frame[t] EXCEPT !.result_ptr = 0])
          /\ heap' = heap
       \/ \E bytes \in NativeBuffers(frame[t].request) :
            /\ heap' = Allocate(heap, bytes)
            /\ Goto(t, "n99", [frame[t] EXCEPT !.result_ptr = Len(heap) + 1])
    /\ UNCHANGED <<concurrent, selector, ncalls, null_frees, files>>

\* lines 99-116: the body of the try after the foreign call
NativeTryBody(h, result_ptr) ==
    IF result_ptr = 0 THEN Raised(Exc("RuntimeError", MsgNullPointer))
    ELSE NativeDecode(ReadBuffer(h, result_ptr))

\* a variant that releases the buffer before it copies its content
NativeProcessAfterFree(t) ==
    /\ pc[t] = "n99"
    /\ LET released == IF frame[t].result_ptr = 0 THEN heap
                       ELSE [heap EXCEPT ![frame[t].result_ptr].data = Released]
       IN Goto(t, "n118", [frame[t] EXCEPT
            !.c_string = IF frame[t].result_ptr = 0 THEN EmptyBytes
                         ELSE ReadBuffer(released, frame[t].result_ptr),
            !.pending = NativeTryBody(released, frame[t].result_ptr)])
    /\ UNCHANGED <<concurrent, selector, ncalls, resources>>

NativeProcess(t) ==
    /\ pc[t] = "n99"
    /\ Goto(t, "n118", [frame[t] EXCEPT
            !.c_string = IF frame[t].result_ptr = 0 THEN EmptyBytes
                         ELSE ReadBuffer(heap, frame[t].result_ptr),
            !.pending = NativeTryBody(heap, frame[t].result_ptr)])
    /\ UNCHANGED <<concurrent, selector, ncalls, resources>>

\* a variant that frees after the response was processed, not in a finally
NativeFreesOnReturn(result_ptr, pending) == result_ptr # 0 /\ pending.kind = "return"

\* line 121: if result_ptr, the condition under which the finally block frees
NativeFrees(result_ptr, pending) == result_ptr # 0

\* a variant that, when the call has failed, switches the package to a WASM
\* adapter built on the spot
NativeFinallyFallsBack(t) ==
    /\ pc[t] = "n118"
    /\ IF frame[t].result_ptr = 0
       THEN heap' = heap
       ELSE heap' = Free(heap, frame[t].result_ptr)
    /\ Done(t, frame[t], frame[t].pending)
    /\ IF frame[t].pending.kind = "raise"
       THEN /\ backend_instance' = WasmInstance(ninits)
            /\ BACKEND' = "wasm"
            /\ wasm_result' = "ok"
       ELSE UNCHANGED <<backend_instance, BACKEND, wasm_result>>
    /\ UNCHANGED <<concurrent, patched, modpc, loaded, ninits, native_result,
                   history, ncalls, null_frees, files>>

\* lines 118-123: finally: self._free(result_ptr); the call ends
NativeFinally(t) ==
    /\ pc[t] = "n118"
    /\ IF NativeFrees(frame[t].result_ptr, frame[t].pending)
       THEN IF frame[t].result_ptr = 0
            THEN heap' = heap /\ null_frees' = null_frees + 1
            ELSE heap' = Free(heap, frame[t].result_ptr) /\ null_frees' = null_frees
       ELSE heap' = heap /\ null_frees' = null_frees
    /\ Done(t, frame[t], frame[t].pending)
    /\ UNCHANGED <<concurrent, selector, ncalls, files>>

(***************************************************************************)
(* WasmBackend.transform (src/src/esbuild_py/_wasm_backend.py).            *)
(***************************************************************************)
Exists(fs, name) == fs[name] # NoFile
\* a variant in which a new file may take a name that is in use
AnyNames(fs) == TmpNames
\* the names tempfile may give a new file: those no file has
FreeNames(fs) == {n \in TmpNames : ~Exists(fs, n)}

\* lines 51-61: the request payload is built and encoded
WasmPrepare(t) ==
    /\ pc[t] = "w51"
    /\ Goto(t, "w66", [frame[t] EXCEPT
            !.request = WasmRequestBytes(frame[t].code, frame[t].kwargs)])
    /\ UNCHANGED <<concurrent, selector, ncalls, resources>>

\* line 66: stdin_file = tempfile.NamedTemporaryFile(delete=False): a new
\* file under a name no file has, or an OSError
WasmCreateStdin(t) ==
    /\ pc[t] = "w66"
    /\ \/ \E name \in FreeNames(files) :
            /\ files' = [files EXCEPT ![name] = EmptyBytes]
            /\ Goto(t, "w67", [frame[t] EXCEPT !.stdin = name])
       \/ /\ files' = files
          /\ Done(t, frame[t], Raised(Exc("OSError", <<"NamedTemporaryFile">>)))
    /\ UNCHANGED <<concurrent, selector, ncalls, heap, null_frees>>

\* line 67: stdout_file = tempfile.NamedTemporaryFile(delete=False)
WasmCreateStdout(t) ==
    /\ pc[t] = "w67"
    /\ \/ \E name \in FreeNames(files) :
            /\ files' = [files EXCEPT ![name] = EmptyBytes]
            /\ Goto(t, "w71", [frame[t] EXCEPT !.stdout = name])
       \/ /\ files' = files
          /\ Done(t, frame[t], Raised(Exc("OSError", <<"NamedTemporaryFile">>)))
    /\ UNCHANGED <<concurrent, selector, ncalls, heap, null_frees>>

RECURSIVE Joined(_)
\* the characters of a text as one string
Joined(chars) == IF chars = <<>> THEN "" ELSE Head(chars) \o Joined(Tail(chars))
\* the first n characters of a string, as the content of a file
Truncated(string, n) ==
    IF n = 0 THEN EmptyBytes ELSE Utf8Encode(PlainText(<<SubSeq(string, 1, n)>>))
\* what a write or close that raises OSError may leave in the file: the
\* first bytes (of an ASCII byte string) that reached it before the failure,
\* MaxWritten of them at most
PartialWrites(bytes) ==
    LET string == Joined(Chars(Utf8Decode(bytes)))
    IN {IF n = Len(string) THEN bytes ELSE Truncated(string, n) :
            n \in {m \in 0..MaxWritten : m <= Len(string)}}

\* lines 71-72: stdin_file.write(request_json_bytes); stdin_file.close(), or
\* an OSError of one of them with part of the request in the file
WasmWrite(t) ==
    /\ pc[t] = "w71"
    /\ \/ /\ files' = [files EXCEPT ![frame[t].stdin] = frame[t].request]
          /\ Goto(t, "w75", frame[t])
       \/ \E written \in PartialWrites(frame[t].request) :
            /\ files' = [files EXCEPT ![frame[t].stdin] = written]
            /\ Goto(t, "w115", [frame[t] EXCEPT
                    !.pending = Raised(Exc("OSError", <<"write">>))])
    /\ UNCHANGED <<concurrent, selector, ncalls, heap, null_frees>>

\* lines 75-93: the module is instantiated on the two files and _start runs:
\* the program reads the input file, writes the output file and stops. An
\* exception that is no WasmtimeError leaves the try; a clean end goes on to
\* line 101; any other WasmtimeError enters the handler's read of line 95
WasmRun(t) ==
    /\ pc[t] = "w75"
    /\ \/ /\ files' = files
          /\ Goto(t, "w115", [frame[t] EXCEPT
                  !.pending = Raised(Exc("WasmtimeError", <<"instantiate">>))])
       \/ /\ Exists(files, frame[t].stdin) /\ Exists(files, frame[t].stdout)
          /\ \E output \in SandboxOutputs(files[frame[t].stdin]), ended \in Terminations :
                LET after == WasmAfterStart(ended, output)
                IN /\ files' = [files EXCEPT ![frame[t].stdout] = output]
                   /\ IF after = NoOutcome
                      THEN Goto(t, "w100", [frame[t] EXCEPT !.ended = ended])
                      ELSE IF Catches({"WasmtimeError"}, ended.type)
                      THEN Goto(t, "w95", [frame[t] EXCEPT !.ended = ended])
                      ELSE Goto(t, "w115", [frame[t] EXCEPT
                              !.ended = ended, !.pending = after])
    /\ UNCHANGED <<concurrent, selector, ncalls, heap, null_frees>>

\* lines 95-98: the handler opens and reads the output file and raises
\* RuntimeError with its text
WasmReadFailure(t) ==
    /\ pc[t] = "w95"
    /\ IF Exists(files, frame[t].stdout)
       THEN Goto(t, "w115", [frame[t] EXCEPT
                !.output_bytes = files[frame[t].stdout],
                !.pending = WasmAfterStart(frame[t].ended, files[frame[t].stdout])])
       ELSE Goto(t, "w115", [frame[t] EXCEPT
                !.pending = Raised(Exc("FileNotFoundError", <<"open">>))])
    /\ UNCHANGED <<concurrent, selector, ncalls, resources>>

\* lines 100-113: the output file is read, decoded and processed
WasmRead(t) ==
    /\ pc[t] = "w100"
    /\ IF Exists(files, frame[t].stdout)
       THEN Goto(t, "w115", [frame[t] EXCEPT
                !.output_bytes = files[frame[t].stdout],
                !.pending = WasmRespond(files[frame[t].stdout])])
       ELSE Goto(t, "w115", [frame[t] EXCEPT
                !.pending = Raised(Exc("FileNotFoundError", <<"open">>))])
    /\ UNCHANGED <<concurrent, selector, ncalls, resources>>

\* a variant that forgets the output file
WasmUnlinksStdinOnly(locals) == <<locals.stdin>>

\* lines 117-118: the names the finally block unlinks, in order
WasmUnlinks(locals) == <<locals.stdin, locals.stdout>>

RECURSIVE UnlinkAll(_, _)
\* os.unlink on each name in turn: the files left, and whether an unlink
\* raised (the name had no file), which ends the block
UnlinkAll(fs, names) ==
    IF names = <<>> THEN [files |-> fs, failed |-> FALSE]
    ELSE IF ~Exists(fs, Head(names)) THEN [files |-> fs, failed |-> TRUE]
    ELSE UnlinkAll([fs EXCEPT ![Head(names)] = NoFile], Tail(names))

\* lines 115-117: finally: os.unlink(stdin_file.name); when it raises the
\* call ends with its exception
WasmUnlinkStdin(t) ==
    /\ pc[t] = "w115"
    /\ LET done == UnlinkAll(files, <<Head(WasmUnlinks(frame[t]))>>)
       IN /\ files' = done.files
          /\ IF done.failed
             THEN Done(t, frame[t], Raised(Exc("FileNotFoundError", <<"unlink">>)))
             ELSE Goto(t, "w118", frame[t])
    /\ UNCHANGED <<concurrent, selector, ncalls, heap, null_frees>>

\* line 118: os.unlink(stdout_file.name); the call ends
WasmUnlinkStdout(t) ==
    /\ pc[t] = "w118"
    /\ LET done == UnlinkAll(files, Tail(WasmUnlinks(frame[t])))
       IN /\ files' = done.files
          /\ Done(t, frame[t],
                  IF done.failed THEN Raised(Exc("FileNotFoundError", <<"unlink">>))
                  ELSE frame[t].pending)
    /\ UNCHANGED <<concurrent, selector, ncalls, heap, null_frees>>

(***************************************************************************)
(* The specification.                                                      *)
(***************************************************************************)
ModuleStep ==
    \/ Import \/ Reload \/ Patch \/ Unpatch
    \/ ModL13 \/ ModL14 \/ ModL23 \/ ModL25 \/ ModL31 \/ ModL33 \/ ModL37 \/ ModL39

CallStep(t) ==
    \/ Transform(t) \/ TransformDelegate(t) \/ Build(t) \/ BuildDelegate(t)
    \/ NativePrepare(t) \/ NativeCall(t) \/ NativeProcess(t) \/ NativeFinally(t)
    \/ WasmPrepare(t) \/ WasmCreateStdin(t) \/ WasmCreateStdout(t) \/ WasmWrite(t)
    \/ WasmRun(t) \/ WasmReadFailure(t) \/ WasmRead(t)
    \/ WasmUnlinkStdin(t) \/ WasmUnlinkStdout(t)
    \/ Finish(t)

Next == ModuleStep \/ \E t \in Threads : CallStep(t)

Spec == Init /\ [][Next]_vars

(***************************************************************************)
(* The specification of the request encoding.  A call delegated to the     *)
(* native adapter is still preparing its request when a reload has         *)
(* selected the WASM adapter and a second call with the same arguments     *)
(* has been delegated to it; the arguments are drawn from all source       *)
(* texts of up to MaxCodeLen characters and all option lists.              *)
(***************************************************************************)
InitCodec ==
    /\ concurrent = TRUE
    /\ patched = FALSE /\ modpc = "ready" /\ loaded = TRUE /\ ninits = 2
    /\ BACKEND = "wasm" /\ backend_instance = WasmInstance(2)
    /\ native_result = "FileNotFoundError" /\ wasm_result = "ok"
    /\ native_available = FALSE /\ resolved = NotResolved
    /\ \E code \in SeqsUpTo(CodeChars, MaxCodeLen), kwargs \in KwargsSet :
        LET call == [EmptyFrame EXCEPT !.op = "transform", !.code = code,
                                       !.kwargs = kwargs]
        IN /\ pc = [t \in Threads |-> IF t = 1 THEN "n87"
                                      ELSE IF t = 2 THEN "w51" ELSE "idle"]
           /\ frame = [t \in Threads |->
                        IF t = 1 THEN [call EXCEPT !.inst = NativeInstance(1, 0)]
                        ELSE IF t = 2 THEN [call EXCEPT !.inst = WasmInstance(2)]
                        ELSE EmptyFrame]
    /\ ncalls = 2
    /\ heap = <<>> /\ null_frees = 0
    /\ files = [n \in TmpNames |-> NoFile]

NextCodec == \E t \in Threads : NativePrepare(t) \/ WasmPrepare(t)

SpecCodec == InitCodec /\ [][NextCodec]_vars

(***************************************************************************)
(* The specification of concurrent sandboxed calls.  The package has       *)
(* selected the WASM adapter and two threads have each a transform call of *)
(* their own source text delegated to it; the calls run in any             *)
(* interleaving.                                                           *)
(***************************************************************************)
\* the two threads whose calls run side by side
Callers == {1, 2}
\* the source text of the call thread t starts with
ThreadCode(t) == [i \in 1..t |-> "a"]
\* and its options: the first thread names no loader
ThreadKwargs(t) == IF t = 1 THEN <<>> ELSE << <<"loader", PyStr(Ts)>> >>

InitWasm ==
    /\ concurrent = TRUE
    /\ patched = FALSE /\ modpc = "ready" /\ loaded = TRUE /\ ninits = 1
    /\ BACKEND = "wasm" /\ backend_instance = WasmInstance(1)
    /\ native_result = "FileNotFoundError" /\ wasm_result = "ok"
    /\ native_available = FALSE /\ resolved = NotResolved
    /\ pc = [t \in Threads |-> IF t \in Callers THEN "w51" ELSE "idle"]
    /\ frame = [t \in Threads |->
                IF t \in Callers
                THEN [EmptyFrame EXCEPT !.op = "transform", !.code = ThreadCode(t),
                                        !.kwargs = ThreadKwargs(t),
                                        !.inst = WasmInstance(1)]
                ELSE EmptyFrame]
    /\ ncalls = MaxCalls
    /\ heap = <<>> /\ null_frees = 0
    /\ files = [n \in TmpNames |-> NoFile]

NextWasm ==
    \E t \in Threads :
        \/ WasmPrepare(t) \/ WasmCreateStdin(t) \/ WasmCreateStdout(t) \/ WasmWrite(t)
        \/ WasmRun(t) \/ WasmReadFailure(t) \/ WasmRead(t)
    \/ WasmUnlinkStdin(t) \/ WasmUnlinkStdout(t)
        \/ Finish(t)

SpecWasm == InitWasm /\ [][NextWasm]_vars

(***************************************************************************)
(* The specification of calls concurrent with the executions of the        *)
(* module: two threads enter transform and build, and are handed to an     *)
(* adapter or fail, while the package is imported and reloaded.            *)
(***************************************************************************)
InitReinit == concurrent = TRUE /\ InitState

NextReinit ==
    \/ Import \/ Reload
    \/ ModL13 \/ ModL14 \/ ModL23 \/ ModL25 \/ ModL31 \/ ModL33 \/ ModL37 \/ ModL39
    \/ \E t \in Callers :
        \/ Transform(t) \/ TransformDelegate(t) \/ Build(t) \/ BuildDelegate(t)
        \/ Finish(t)

SpecReinit == InitReinit /\ [][NextReinit]_vars

(***************************************************************************)
(* Properties.                                                             *)
(***************************************************************************)
NativeFailed == native_result \notin {"unset", "ok"}
WasmFailed == wasm_result \notin {"unset", "ok"}
\* thread t holds the outcome of a call of `op` that reached the adapter `kind`
Ended(t, op, kind) ==
    pc[t] = "done" /\ frame[t].op = op /\ frame[t].inst.kind = kind
\* thread t is past line 68 or 95: its call has been handed to an adapter
Delegated(t) == frame[t].inst # NoInstance
HasPrefix(s, prefix) == Len(s) >= Len(prefix) /\ SubSeq(s, 1, Len(prefix)) = prefix

\* C1: whenever the construction of the native adapter has failed in a
\* selection, the selection has attempted the WASM adapter, and when that
\* construction succeeded, BACKEND is 'wasm' and the calls are handed to the
\* WASM adapter instance.
C1_FallbackOnAnyFailure ==
    (ModuleAtRest /\ NativeFailed) =>
        /\ wasm_result # "unset"
        /\ wasm_result = "ok" =>
            /\ BACKEND = "wasm" /\ backend_instance.kind = "wasm"
            /\ \A t \in Threads : Delegated(t) => frame[t].inst = backend_instance

\* C2: when both constructions have failed, BACKEND is 'none' and there is no
\* adapter instance, and every transform and build call made in that state
\* ends by raising RuntimeError with the non-empty message of its operation;
\* none returns a value.
C2_Unavailable ==
    (ModuleAtRest /\ NativeFailed /\ WasmFailed) =>
        /\ BACKEND = "none" /\ backend_instance = NoInstance
        /\ \A t \in Threads : pc[t] = "done" =>
            /\ frame[t].outcome.kind = "raise"
            /\ frame[t].outcome.exc.type = "RuntimeError"
            /\ frame[t].outcome.exc.msg # <<>>
            /\ frame[t].outcome.exc.msg =
                IF frame[t].op = "transform" THEN MsgTransformUnavailable
                ELSE MsgBuildUnavailable

\* a second call, a build, has failed after both constructions failed
C2_Witness ==
    /\ ModuleAtRest /\ NativeFailed /\ WasmFailed
    /\ ncalls >= 2
    /\ \E t \in Threads : pc[t] = "done" /\ frame[t].op = "build"

RECURSIVE TotalFrees(_)
\* invocations of free on the buffers of h
TotalFrees(h) == IF h = <<>> THEN 0 ELSE Head(h).frees + TotalFrees(Tail(h))

\* C3: free is never invoked with NULL; no buffer is freed twice; a buffer not
\* yet freed belongs to a call that is still inside its try block; when a
\* call has ended its buffer has been freed once; so between calls the
\* invocations of free equal the non-null buffers returned.
C3_ExactlyOnce ==
    /\ null_frees = 0
    /\ \A a \in DOMAIN heap :
        /\ heap[a].frees <= 1
        /\ heap[a].frees = 0 =>
            \E t \in Threads : pc[t] \in {"n99", "n118"} /\ frame[t].result_ptr = a
    /\ \A t \in Threads :
        (pc[t] = "done" /\ frame[t].result_ptr # 0) => heap[frame[t].result_ptr].frees = 1
    /\ (\A t \in Threads : pc[t] \in {"idle", "done"}) => TotalFrees(heap) = Len(heap)

\* a second buffer was returned, it held no JSON, and the call has ended
C3_Witness ==
    \E t \in Threads :
        /\ Ended(t, "transform", "native")
        /\ frame[t].outcome.exc.type = "JSONDecodeError"
        /\ Len(heap) >= 2 /\ frame[t].result_ptr = Len(heap)

\* C4: when a sandboxed transform call has ended, whatever its outcome, the two
\* channel files it created no longer exist.
C4_ChannelFilesGone ==
    \A t \in Threads :
        (Ended(t, "transform", "wasm") /\ frame[t].stdin # 0 /\ frame[t].stdout # 0) =>
            /\ frame[t].stdin # frame[t].stdout
            /\ ~Exists(files, frame[t].stdin)
            /\ ~Exists(files, frame[t].stdout)

\* a sandboxed call has ended with 'esbuild WASM execution failed'
C4_Witness ==
    \E t \in Threads :
        /\ Ended(t, "transform", "wasm")
        /\ frame[t].stdin # 0 /\ frame[t].stdout # 0
        /\ frame[t].outcome.exc.type = "RuntimeError"
        /\ HasPrefix(frame[t].outcome.exc.msg, MsgWasmFailed)

\* C5: a failure of loading the library found (OSError of LoadLibrary, or
\* AttributeError for a missing symbol) is caught by the selection, which goes
\* on to construct the WASM adapter; it does not reach the importer.
C5_LoadFailureFallsThrough ==
    native_result \in {"OSError", "AttributeError"} =>
        /\ modpc # "raised"
        /\ ModuleAtRest => wasm_result # "unset"

\* C6: a build call made while an adapter is active is handed to the adapter's
\* build operation; it returns a result with 'errors' and 'warnings', or
\* raises what that operation raised, never an error for the lack of it.
C6_BuildDelegates ==
    \A t \in Threads :
        (pc[t] = "done" /\ frame[t].op = "build" /\ Delegated(t)) =>
            /\ "build" \in Methods(frame[t].inst.kind)
            /\ frame[t].outcome.kind = "return" =>
                /\ IsDict(frame[t].outcome.value)
                /\ {"errors", "warnings"} \subseteq DictKeys(frame[t].outcome.value.dict)
            /\ frame[t].outcome.kind = "raise" =>
                frame[t].outcome.exc.type # "AttributeError"

\* the request thread t has encoded, decoded again
Envelope(t) == JsonLoads(Utf8Decode(frame[t].request)).dict
\* thread t has encoded its request
Encoded(t) == pc[t] \in {"n97", "w66"}
EnvelopeCode(t) ==
    DictGet(Envelope(t), IF frame[t].inst.kind = "native" THEN "code" ELSE "input", None)
EnvelopeOptions(t) == DictGet(Envelope(t), "options", PyDict(<<>>)).dict
\* the envelope carries the code and every option of the caller unchanged
CarriesRequest(t) ==
    /\ EnvelopeCode(t) = PyStr(frame[t].code)
    /\ \A k \in DictKeys(frame[t].kwargs) :
        DictGet(EnvelopeOptions(t), k, None) = DictGet(frame[t].kwargs, k, None)
\* two calls with the same arguments have encoded the same options mapping
SameOptions(t, u) ==
    (Encoded(t) /\ Encoded(u) /\ frame[t].code = frame[u].code
        /\ frame[t].kwargs = frame[u].kwargs) =>
        AsMapping(EnvelopeOptions(t)) = AsMapping(EnvelopeOptions(u))

\* C7, as stated: the envelope of either adapter carries the code and every
\* supplied option unchanged, its loader is "jsx" if and only if the caller
\* omitted 'loader', and both adapters encode the same options mapping.
C7_LoaderJsxIffOmitted ==
    /\ \A t \in Threads : Encoded(t) =>
        /\ CarriesRequest(t)
        /\ (DictGet(EnvelopeOptions(t), "loader", None) = PyStr(Jsx))
            <=> ~DictHas(frame[t].kwargs, "loader")
    /\ \A t, u \in Threads : SameOptions(t, u)

\* C7, amended: the envelope of either adapter carries the code and every
\* supplied option unchanged; its options are the caller's with 'loader'
\* added as "jsx" when the caller omitted it, so that the loader is the
\* caller's when one was supplied (also when that is "jsx"); and both
\* adapters encode the same options mapping.
C7_Envelope ==
    /\ \A t \in Threads : Encoded(t) =>
        /\ CarriesRequest(t)
        /\ DictKeys(EnvelopeOptions(t)) = DictKeys(frame[t].kwargs) \cup {"loader"}
        /\ DictGet(EnvelopeOptions(t), "loader", None) =
            DictGet(frame[t].kwargs, "loader", PyStr(Jsx))
    /\ \A t, u \in Threads : SameOptions(t, u)

\* both adapters have encoded a request whose text has a quote and a
\* non-ASCII character and whose options name no loader
C7_Witness ==
    /\ Encoded(1) /\ Encoded(2)
    /\ frame[1].inst.kind = "native" /\ frame[2].inst.kind = "wasm"
    /\ frame[1].code = <<Quote, NonAscii>>
    /\ DictKeys(frame[1].kwargs) = {"minify"}

\* the buffer holds a JSON object in UTF-8
DecodesToObject(bytes) ==
    /\ Utf8DecodeOk(bytes) /\ JsonLoadsOk(Utf8Decode(bytes))
    /\ IsDict(JsonLoads(Utf8Decode(bytes)))
ResponseOf(bytes) == JsonLoads(Utf8Decode(bytes)).dict
ErrorsOf(bytes) == DictGet(ResponseOf(bytes), "errors", PyList(<<>>)).list
ReportsErrors(bytes) == DecodesToObject(bytes) /\ Len(ErrorsOf(bytes)) > 0
\* the texts of the diagnostics that have one, in order
TextsOf(errors) ==
    LET withText == SelectSeq(errors, LAMBDA e : DictHas(e.dict, "text"))
    IN [i \in 1..Len(withText) |-> DictGet(withText[i].dict, "text", None).str]

RECURSIVE InOrder(_, _)
\* the strings occur in msg one after the other
InOrder(msg, strs) ==
    IF strs = <<>> THEN TRUE
    ELSE \E i \in 1..(Len(msg) - Len(strs[1]) + 1) :
            /\ SubSeq(msg, i, i + Len(strs[1]) - 1) = strs[1]
            /\ InOrder(SubSeq(msg, i + Len(strs[1]), Len(msg)), Tail(strs))

NullPointerOutcome(t) == frame[t].outcome = Raised(Exc("RuntimeError", MsgNullPointer))
TransformFailedOutcome(t) ==
    /\ frame[t].outcome.kind = "raise"
    /\ frame[t].outcome.exc.type = "RuntimeError"
    /\ HasPrefix(frame[t].outcome.exc.msg, MsgTransformFailed)
    /\ InOrder(frame[t].outcome.exc.msg, TextsOf(ErrorsOf(frame[t].c_string)))
CodeOutcome(t) ==
    /\ DecodesToObject(frame[t].c_string) =>
        frame[t].outcome =
            Returned(DictGet(ResponseOf(frame[t].c_string), "code", PyStr(<<>>)))
    /\ frame[t].outcome.kind = "return"

\* C8, as stated: a native transform call raises NativeCallFailed for a NULL
\* result; otherwise raises TransformFailed with the texts of the diagnostics
\* in order when the response lists errors; otherwise returns the response's
\* code, or '' when there is none.
C8_ThreeOutcomes ==
    \A t \in Threads : Ended(t, "transform", "native") =>
        IF frame[t].result_ptr = 0 THEN NullPointerOutcome(t)
        ELSE IF ReportsErrors(frame[t].c_string) THEN TransformFailedOutcome(t)
        ELSE CodeOutcome(t)

\* C8, amended: a native transform call raises NativeCallFailed for a NULL
\* result; otherwise, when the buffer does not hold a JSON object in UTF-8,
\* it raises the error of the decoding (UnicodeDecodeError, JSONDecodeError,
\* AttributeError); otherwise raises TransformFailed with the texts of the
\* diagnostics in order when the response lists errors; otherwise returns
\* the response's code, or '' when there is none.
C8_Outcomes ==
    \A t \in Threads : Ended(t, "transform", "native") =>
        IF frame[t].result_ptr = 0 THEN NullPointerOutcome(t)
        ELSE IF ~DecodesToObject(frame[t].c_string) THEN
            /\ frame[t].outcome.kind = "raise"
            /\ frame[t].outcome.exc.type \in
                {"UnicodeDecodeError", "JSONDecodeError", "AttributeError"}
        ELSE IF ReportsErrors(frame[t].c_string) THEN TransformFailedOutcome(t)
        ELSE CodeOutcome(t)

\* a call has ended on a response that lists two diagnostics, E2 then E1,
\* next to a code
C8_Witness ==
    \E t \in Threads :
        /\ Ended(t, "transform", "native")
        /\ ReportsErrors(frame[t].c_string)
        /\ DictHas(ResponseOf(frame[t].c_string), "code")
        /\ TextsOf(ErrorsOf(frame[t].c_string)) = << <<"E2">>, <<"E1">> >>

\* the entry point has ended cleanly: it returned or exited with status 0
CleanExit(ended) == ended = NoExc \/ ended = Exc("WasmtimeError", MsgExit0)
EntryPointRan(t) == frame[t].ended # NotRun

\* C9: in a sandboxed transform call whose entry point has ended otherwise
\* than with exit status 0, the call raises RuntimeError 'esbuild WASM
\* execution failed' followed by the content of the output file; only a
\* clean exit lets the call return.
C9_OnlyExit0Succeeds ==
    \A t \in Threads : (Ended(t, "transform", "wasm") /\ EntryPointRan(t)) =>
        /\ ~CleanExit(frame[t].ended) =>
            /\ frame[t].outcome.kind = "raise"
            /\ frame[t].outcome.exc.type = "RuntimeError"
            /\ HasPrefix(frame[t].outcome.exc.msg, MsgWasmFailed)
            /\ Utf8DecodeOk(frame[t].output_bytes) =>
                frame[t].outcome.exc.msg =
                    MsgWasmFailed \o Chars(Utf8Decode(frame[t].output_bytes))
        /\ frame[t].outcome.kind = "return" => CleanExit(frame[t].ended)

SandboxResponse(bytes) == JsonLoads(Utf8Decode(bytes)).dict
PopulatedError(bytes) ==
    /\ DecodesToObject(bytes)
    /\ Truthy(DictGet(SandboxResponse(bytes), "error", None))
EmptyResponseOutcome(t) == frame[t].outcome = Raised(Exc("RuntimeError", MsgNoData))
SandboxFailedOutcome(t) ==
    frame[t].outcome =
        Raised(Exc("RuntimeError", MsgTransformFailed
            \o DictGet(SandboxResponse(frame[t].output_bytes), "error", None).str))
SandboxCodeOutcome(t) ==
    /\ DecodesToObject(frame[t].output_bytes) =>
        frame[t].outcome =
            Returned(DictGet(SandboxResponse(frame[t].output_bytes), "code", PyStr(<<>>)))
    /\ frame[t].outcome.kind = "return"

\* C10, as stated: after a clean termination the call raises EmptyResponse
\* when the output is empty, raises TransformFailed with the error text when
\* the response has a populated error, and otherwise returns the response's
\* code.
C10_ThreeOutcomes ==
    \A t \in Threads :
        (Ended(t, "transform", "wasm") /\ CleanExit(frame[t].ended)) =>
            IF BytesEmpty(frame[t].output_bytes) THEN EmptyResponseOutcome(t)
            ELSE IF PopulatedError(frame[t].output_bytes) THEN SandboxFailedOutcome(t)
            ELSE SandboxCodeOutcome(t)

\* C10, amended: after a clean termination the call raises EmptyResponse when
\* the output is empty; otherwise, when the output does not hold a JSON
\* object in UTF-8, it raises the error of the decoding; otherwise raises
\* TransformFailed with the error text when the response has a populated
\* error; otherwise returns the response's code, or '' when there is none.
\* It returns nothing when the output is empty or carries an error.
C10_Outcomes ==
    \A t \in Threads :
        (Ended(t, "transform", "wasm") /\ CleanExit(frame[t].ended)) =>
            /\ IF BytesEmpty(frame[t].output_bytes) THEN EmptyResponseOutcome(t)
               ELSE IF ~DecodesToObject(frame[t].output_bytes) THEN
                    /\ frame[t].outcome.kind = "raise"
                    /\ frame[t].outcome.exc.type \in
                        {"UnicodeDecodeError", "JSONDecodeError", "AttributeError"}
               ELSE IF PopulatedError(frame[t].output_bytes) THEN SandboxFailedOutcome(t)
               ELSE SandboxCodeOutcome(t)
            /\ frame[t].outcome.kind = "return" =>
                /\ ~BytesEmpty(frame[t].output_bytes)
                /\ ~PopulatedError(frame[t].output_bytes)

\* a call has ended after exit status 0 on a response with a populated error
C10_Witness ==
    \E t \in Threads :
        /\ Ended(t, "transform", "wasm")
        /\ frame[t].ended = Exc("WasmtimeError", MsgExit0)
        /\ PopulatedError(frame[t].output_bytes)

\* C11: once no patch is active, the backend of a package whose last selection
\* has completed is the one an unpatched selection yields: where NativeBackend()
\* succeeds unpatched, BACKEND is 'native' and the instance is a NativeBackend,
\* also when that selection ran under the patch and was not repeated after
\* the patch exited.
C11_RestoredOnPatchExit ==
    (loaded /\ modpc = "ready" /\ ~patched /\ native_available) =>
        BACKEND = "native" /\ backend_instance.kind = "native"

\* the backend the two constructions of an execution of the module select
SelectionOf(native, wasm) ==
    IF native = "ok" THEN "native" ELSE IF wasm = "ok" THEN "wasm" ELSE "none"

\* C12: when an execution of the module (the import or a reload) has ended,
\* BACKEND is the backend selected by the constructions of that execution
\* alone, the instance is of that kind, and it is one this execution has
\* built, never the handle of an earlier execution.
C12_SelectionFromScratch ==
    ModuleAtRest =>
        /\ BACKEND = SelectionOf(native_result, wasm_result)
        /\ backend_instance.kind = BACKEND
        /\ backend_instance # NoInstance => backend_instance.id = ninits

\* the native adapter has served a call (the library has returned a buffer),
\* and a later execution of the module has ended with BACKEND 'none'
C12_Witness ==
    /\ loaded /\ modpc = "ready" /\ ninits >= 2
    /\ Len(heap) > 0
    /\ BACKEND = "none" /\ native_result = "FileNotFoundError"

\* C13: when the construction of the WASM adapter has failed, whatever the
\* failure, the execution of the module does not end by raising, and it ends
\* with BACKEND 'none' and no instance.
C13_NeverRaisesToImporter ==
    WasmFailed =>
        /\ modpc # "raised"
        /\ ModuleAtRest => (BACKEND = "none" /\ backend_instance = NoInstance)

\* C14: a step of a call (its entry, its delegation, a step of an adapter,
\* its end) leaves BACKEND, the instance with its library and module, the
\* results of the constructions and the position of the module unchanged;
\* the adapter a call was handed to stays the same until the call has ended.
C14_CallsLeaveSelection ==
    [][(pc' # pc \/ frame' # frame \/ ncalls' # ncalls) =>
        /\ UNCHANGED <<BACKEND, backend_instance, native_result, wasm_result,
                       modpc, ninits, loaded>>
        /\ \A t \in Threads :
            (Delegated(t) /\ pc[t] # "done") => frame'[t].inst = frame[t].inst]_vars

\* a second call on the native adapter has failed, and the adapter that
\* served it is still the active one
C14_Witness ==
    \E t \in Threads :
        /\ Ended(t, "transform", "native")
        /\ frame[t].outcome.kind = "raise" /\ ncalls >= 2
        /\ BACKEND = "native" /\ backend_instance = frame[t].inst
        /\ wasm_result = "unset"

\* C16: the path NativeBackend() resolves is the package's own directory when
\* the file exists there; otherwise the first installed-package directory, in
\* order, that holds it; when no place holds it the construction raises
\* FileNotFoundError whatever loading would have done, and otherwise it does
\* not raise FileNotFoundError and a successful construction has loaded the
\* resolved path.
C16_Resolution ==
    resolved.ran =>
        /\ 0 \in resolved.libFiles => resolved.path = 0
        /\ (0 \notin resolved.libFiles /\ resolved.libFiles # {}) =>
            /\ resolved.path \in resolved.libFiles
            /\ \A d \in resolved.libFiles : resolved.path <= d
        /\ resolved.libFiles = {} =>
            /\ resolved.path = NoPath
            /\ native_result = "FileNotFoundError"
        /\ resolved.libFiles # {} =>
            /\ native_result = (IF resolved.load = "ok" THEN "ok"
                                ELSE IF resolved.load = "oserror" THEN "OSError"
                                ELSE "AttributeError")
            /\ native_result = "ok" => backend_instance.lib = resolved.path

\* the file is absent from the package's directory and present in both
\* installed-package directories: the first of them has been loaded
C16_Witness ==
    /\ resolved.ran /\ resolved.libFiles = {1, 2}
    /\ native_result = "ok" /\ backend_instance.lib = 1

\* C17: when a sandboxed transform call has ended, whatever its exit path,
\* no file it created exists any more.
C17_EveryFileDeleted ==
    \A t \in Threads : (pc[t] = "done" /\ frame[t].inst.kind = "wasm") =>
        /\ frame[t].stdin # 0 => ~Exists(files, frame[t].stdin)
        /\ frame[t].stdout # 0 => ~Exists(files, frame[t].stdout)

\* C20: the bytes a native call has copied are never those of a released
\* buffer: the buffer is live while the call is about to copy it, the pending
\* outcome is built from the copy, and the outcome handed to the caller is
\* that pending outcome, a string or an exception and never the address,
\* standing while the buffer itself has been released once.
C20_NoUseAfterFree ==
    \A t \in Threads : (frame[t].inst.kind = "native" /\ frame[t].op = "transform") =>
        /\ frame[t].c_string # Released
        /\ (pc[t] = "n99" /\ frame[t].result_ptr # 0) =>
            /\ heap[frame[t].result_ptr].frees = 0
            /\ heap[frame[t].result_ptr].data # Released
        /\ (pc[t] \in {"n118", "done"} /\ frame[t].result_ptr # 0) =>
            frame[t].pending = NativeDecode(frame[t].c_string)
        /\ pc[t] = "done" =>
            /\ frame[t].outcome = frame[t].pending
            /\ frame[t].outcome.kind = "return" => IsStr(frame[t].outcome.value)
            /\ frame[t].result_ptr # 0 =>
                /\ heap[frame[t].result_ptr].data = Released
                /\ heap[frame[t].result_ptr].frees = 1

\* a call has returned the code of a response whose buffer has been released
C20_Witness ==
    \E t \in Threads :
        /\ Ended(t, "transform", "native")
        /\ frame[t].result_ptr # 0
        /\ heap[frame[t].result_ptr].data = Released
        /\ frame[t].outcome = Returned(PyStr(Compiled(frame[t].code)))

\* the channel files thread t has created and not yet deleted
Holds(t) ==
    (IF pc[t] \in {"w67", "w71", "w75", "w95", "w100", "w115"}
     THEN {frame[t].stdin} ELSE {})
    \cup (IF pc[t] \in {"w71", "w75", "w95", "w100", "w115", "w118"}
          THEN {frame[t].stdout} ELSE {})
HoldsPair(t) == pc[t] \in {"w71", "w75", "w95", "w100", "w115"}

\* C15: in every interleaving of sandboxed calls, the two files of a call are
\* distinct, the files of two calls in flight are disjoint, every file a call
\* holds exists (no other call's cleanup has deleted it), the input file
\* holds the call's own request once written, the output file holds an answer
\* to that request when the program has stopped, the output a call has read
\* is the content of its own output file, and the code it returns is the one
\* compiled from its own text.
C15_ExclusiveChannels ==
    /\ \A t \in Threads : HoldsPair(t) => frame[t].stdin # frame[t].stdout
    /\ \A t, u \in Threads : t # u => Holds(t) \cap Holds(u) = {}
    /\ \A t \in Threads : \A n \in Holds(t) : Exists(files, n)
    /\ \A t \in Threads :
        /\ pc[t] \in {"w75", "w95", "w100"} => files[frame[t].stdin] = frame[t].request
        /\ pc[t] \in {"w95", "w100"} =>
            files[frame[t].stdout] \in SandboxOutputs(frame[t].request)
        /\ (pc[t] \in {"w115", "w118"} /\ EntryPointRan(t)) =>
            frame[t].output_bytes \in {EmptyBytes, files[frame[t].stdout]}
        /\ (pc[t] = "done" /\ frame[t].outcome.kind = "return"
                /\ frame[t].outcome.value # PyStr(<<>>)) =>
            frame[t].outcome.value = PyStr(Compiled(frame[t].code))

\* two calls hold their pairs at once, the program has answered both, each
\* output file holding the code compiled from that call's own text
C15_Witness ==
    /\ pc[1] = "w100" /\ pc[2] = "w100"
    /\ Cardinality(Holds(1) \cup Holds(2)) = 4
    /\ \A t \in {1, 2} :
        files[frame[t].stdout] =
            Utf8Encode(JsonDumps(PyDict(<< <<"code", PyStr(Compiled(ThreadCode(t)))>> >>)))

\* BACKEND names the kind of the instance
Agree == backend_instance.kind = BACKEND
\* the states of the package a caller can see: those between the executions
\* of the module and, for a thread that runs beside a reload, those inside it
Observable == ModuleAtRest \/ (concurrent /\ loaded)

\* C18, as stated: in every state a caller can observe, the steps of a
\* re-initialization included, BACKEND is 'native', 'wasm' or 'none' exactly
\* when the instance is a NativeBackend, a WasmBackend or absent.
C18_AgreeInEveryState == Observable => Agree

\* C18, amended: BACKEND and the instance agree whenever no execution of the
\* module is in progress, also after one that ended by raising; while one is
\* in progress BACKEND is 'none' or the kind of the instance; and the
\* instance is always one adapter or none.
C18_AgreeAtRest ==
    /\ ModuleAtRest => Agree
    /\ ~ModuleAtRest => (Agree \/ BACKEND = "none")
    /\ backend_instance.kind \in {"native", "wasm", "none"}
    /\ backend_instance.kind = "none" <=> backend_instance = NoInstance

\* a reload of a package that had the native backend has ended by raising
C18_Witness ==
    /\ loaded /\ modpc = "raised"
    /\ \E t \in Threads : frame[t].inst.kind = "native"
    /\ BACKEND = "none" /\ backend_instance = NoInstance

\* C19: the import has selected a backend (an adapter it built serves a call)
\* and the first reload has selected one as well; no call has failed for the
\* lack of a backend: every call that has ended was handed to an adapter,
\* the one built by the import or the one built by the reload.
C19_ServedDuringReload ==
    (/\ ninits = 2 /\ modpc = "ready" /\ BACKEND # "none"
     /\ \E u \in Threads : frame[u].inst # NoInstance /\ frame[u].inst.id = 1) =>
        \A t \in Threads : pc[t] = "done" =>
            /\ frame[t].outcome # Raised(Exc("RuntimeError", MsgTransformUnavailable))
            /\ frame[t].outcome # Raised(Exc("RuntimeError", MsgBuildUnavailable))
            /\ Delegated(t) /\ frame[t].inst.id \in {1, 2}
====
